---------------------------- MODULE Spec2Model ----------------------------
(***************************************************************************)
(* Inventory / ledger core of finanzas.py: the SQLite store (productos,    *)
(* ventas, compras, capital_inversion), and the operations that mutate it. *)
(* Every operation opens its own connection (get_db_connection); writes of *)
(* a connection are buffered in its transaction (tx) until commit, and the *)
(* store admits one writing connection at a time (lock).                   *)
(* Money is modelled in whole units, dates as day numbers.                 *)
(***************************************************************************)
EXTENDS Integers, Sequences, FiniteSets, TLC

(* ------------------------------ bounds -------------------------------- *)
MaxProductos == 2      \* rows ever inserted into productos
MaxDia == 31           \* last day the clock reaches
MaxFilas == 2          \* rows ever inserted into ventas and compras together

(* ------------------------------ inputs -------------------------------- *)
Callers == {"A", "B"}
NombreArgs == { <<" ">>, <<"a">>, <<"a", " ">>, <<"b">> }
CostoArgs == {-1, 2}
VentaArgs == {-1, 1, 2}
StockArgs == {-1, 0, 3}
CantidadArgs == {-1, 3, 5}
MermasArgs == {-1, 0, 1}
CostoUnitarioArgs == {-1, 2}
CapitalArgs == {-1, 10, 100}
Metodos == {"Efectivo", "Transferencia"}

ProductoIds == 1..MaxProductos

NoArgs == [op |-> "none"]
NULL == "NULL"     \* None
NoRow == << >>      \* fetchone() on an empty result
NoCaller == "none"

VARIABLES
  db,             \* committed content of finanzas.db
  tx,             \* content as seen by the connection holding the write lock
  lock,           \* caller whose connection has an open write transaction
  hoy,            \* date.today()
  pc,             \* position of each caller inside the operation it runs
  args,           \* arguments of the running operation
  loc,            \* local variables of the running operation
  stock_inicial   \* stock argument each product row was inserted with

vars == <<db, tx, lock, hoy, pc, args, loc, stock_inicial>>

(* ------------------------------ strings ------------------------------- *)
RECURSIVE lstrip(_)
lstrip(s) ==
  IF s = <<>> THEN s
  ELSE IF Head(s) = " " THEN lstrip(Tail(s)) ELSE s

RECURSIVE rstrip(_)
rstrip(s) ==
  IF s = <<>> THEN s
  ELSE IF s[Len(s)] = " " THEN rstrip(SubSeq(s, 1, Len(s) - 1)) ELSE s

strip(s) == rstrip(lstrip(s))

(* ------------------------------ schema -------------------------------- *)
\* CHECK constraints of the four tables
productos_check_sin_stock(costo, venta, stock) ==
  costo >= 0 /\ venta >= 0

productos_check(costo, venta, stock) ==
  costo >= 0 /\ venta >= 0 /\ stock >= 0

ventas_check(vendidos, mermas) ==
  vendidos > 0 /\ mermas >= 0

capital_inversion_check_sin_signo(efectivo, transferencia) ==
  TRUE

capital_inversion_check(efectivo, transferencia) ==
  efectivo >= 0 /\ transferencia >= 0

compras_check(cantidad, costo_unitario, total) ==
  cantidad > 0 /\ costo_unitario >= 0 /\ total >= 0

\* the store after the first init_database(): empty tables, one capital row
EmptyDb(fecha) ==
  [ productos |-> << >>,
    ventas |-> {},
    compras |-> {},
    capital_inversion |-> (1 :> [efectivo |-> 0, transferencia |-> 0,
                                 fecha_actualizacion |-> fecha]),
    sqlite_sequence |-> [productos |-> 0, ventas |-> 0, compras |-> 0,
                         capital_inversion |-> 1] ]

\* outcome of one SQL statement: the new content, or the exception raised
Ok(d) == [err |-> "ok", db |-> d]
Raise(e, d) == [err |-> e, db |-> d]

Max(S) == CHOOSE x \in S : \A y \in S : y <= x

(* --------------------------- SQL statements --------------------------- *)
\* SELECT stock FROM productos WHERE id = ? ; fetchone()
SelectStock(d, producto_id) ==
  IF producto_id \in DOMAIN d.productos
    THEN <<d.productos[producto_id].stock>>
    ELSE NoRow

\* INSERT INTO ventas (fecha, producto_id, vendidos, mermas, metodo)
InsertVentas(d, fecha, producto_id, vendidos, mermas, metodo) ==
  IF ~ventas_check(vendidos, mermas)
    THEN Raise("IntegrityError", d)
    ELSE LET id == d.sqlite_sequence.ventas + 1
         IN Ok([d EXCEPT
                  !.ventas = @ \cup {[id |-> id, fecha |-> fecha,
                                      producto_id |-> producto_id,
                                      vendidos |-> vendidos, mermas |-> mermas,
                                      metodo |-> metodo]},
                  !.sqlite_sequence.ventas = id])

\* UPDATE productos SET stock = ? WHERE id = ?
UpdateStock(d, stock, producto_id) ==
  IF producto_id \notin DOMAIN d.productos
    THEN Ok(d)
    ELSE IF ~productos_check(d.productos[producto_id].costo,
                             d.productos[producto_id].venta, stock)
      THEN Raise("IntegrityError", d)
      ELSE Ok([d EXCEPT !.productos[producto_id].stock = stock])

(* ------------------------------ handlers ------------------------------- *)
\* the operation returns (exito, mensaje); valor holds the numbers the message shows
Resultado(exito, mensaje, valor) ==
  [exito |-> exito, mensaje |-> mensaje, valor |-> valor]

\* A handler is a sequence of steps on its connection.  A step takes the
\* position pc, the locals l and the connection's view of the store, and gives
\* the next position: another step, or one of the three ways a handler ends.
Terminal == {"return", "rollback", "commit"}
Sigue(pc_, l, view) == [pc |-> pc_, loc |-> l, view |-> view, res |-> NULL]
Fin(how, view, res) == [pc |-> how, loc |-> << >>, view |-> view, res |-> res]

(* --------------------------- registrar_venta --------------------------- *)
ErrorVenta == Resultado(FALSE, "Error al registrar venta", << >>)

\* line 124
StockInsuficienteOffByOne(cantidad, stock_actual) == cantidad > stock_actual + 1

StockInsuficiente(cantidad, stock_actual) == cantidad > stock_actual

\* lines 121-125: read the stock and compare
registrar_venta_select_sin_fila(a, l, view) ==
  LET fila == SelectStock(view, a.producto_id)
  IN IF fila = NoRow
       THEN Sigue("venta_insert", [stock_actual |-> a.cantidad], view)
       ELSE IF StockInsuficiente(a.cantidad, fila[1])
         THEN Fin("return", view,
                  Resultado(FALSE, "Stock insuficiente", <<fila[1]>>))
         ELSE Sigue("venta_insert", [stock_actual |-> fila[1]], view)

registrar_venta_select(a, l, view) ==
  LET fila == SelectStock(view, a.producto_id)
  IN IF fila = NoRow
       THEN Fin("rollback", view, ErrorVenta)
       ELSE IF StockInsuficiente(a.cantidad, fila[1])
         THEN Fin("return", view,
                  Resultado(FALSE, "Stock insuficiente", <<fila[1]>>))
         ELSE Sigue("venta_insert", [stock_actual |-> fila[1]], view)

\* lines 128-131
registrar_venta_insert(a, l, view, fecha) ==
  LET r == InsertVentas(view, fecha, a.producto_id, a.cantidad, a.mermas,
                        a.metodo)
  IN IF r.err = "ok"
       THEN Sigue("venta_update", l, r.db)
       ELSE Fin("rollback", view, ErrorVenta)

\* line 134
NuevoStockVentaConMermas(stock_actual, cantidad, mermas) ==
  stock_actual - cantidad - mermas

NuevoStockVenta(stock_actual, cantidad, mermas) == stock_actual - cantidad

\* lines 134-135
registrar_venta_update(a, l, view) ==
  LET nuevo_stock == NuevoStockVenta(l.stock_actual, a.cantidad, a.mermas)
      r == UpdateStock(view, nuevo_stock, a.producto_id)
  IN IF r.err = "ok"
       THEN Sigue("venta_commit", [stock_actual |-> l.stock_actual,
                                   nuevo_stock |-> nuevo_stock], r.db)
       ELSE Fin("rollback", view, ErrorVenta)

\* lines 137-138
registrar_venta_commit(a, l, view) ==
  Fin("commit", view, Resultado(TRUE, "Venta registrada", <<l.nuevo_stock>>))

(* -------------------------- capital_inversion -------------------------- *)
\* id of the row ORDER BY id DESC LIMIT 1 addresses
UltimoCapital(d) == Max(DOMAIN d.capital_inversion)

\* lines 263-271; always on a connection of its own
obtener_capital_actual(d) ==
  IF DOMAIN d.capital_inversion = {}
    THEN [efectivo |-> 0, transferencia |-> 0]
    ELSE [efectivo |-> d.capital_inversion[UltimoCapital(d)].efectivo,
          transferencia |-> d.capital_inversion[UltimoCapital(d)].transferencia]

\* UPDATE capital_inversion SET <fields of nuevo>, fecha_actualizacion = ?
\*   WHERE id = (SELECT id ... ORDER BY id DESC LIMIT 1)
UpdateCapitalSumando(d, nuevo, fecha) ==
  IF DOMAIN d.capital_inversion = {}
    THEN Ok(d)
    ELSE LET id == UltimoCapital(d)
             fila == [efectivo |-> d.capital_inversion[id].efectivo
                                     + nuevo.efectivo,
                      transferencia |-> d.capital_inversion[id].transferencia
                                          + nuevo.transferencia,
                      fecha_actualizacion |-> fecha]
         IN IF ~capital_inversion_check(fila.efectivo, fila.transferencia)
              THEN Raise("IntegrityError", d)
              ELSE Ok([d EXCEPT !.capital_inversion[id] = fila])

UpdateCapital(d, nuevo, fecha) ==
  IF DOMAIN d.capital_inversion = {}
    THEN Ok(d)
    ELSE LET id == UltimoCapital(d)
             fila == [efectivo |-> nuevo.efectivo,
                      transferencia |-> nuevo.transferencia,
                      fecha_actualizacion |-> fecha]
         IN IF ~capital_inversion_check(fila.efectivo, fila.transferencia)
              THEN Raise("IntegrityError", d)
              ELSE Ok([d EXCEPT !.capital_inversion[id] = fila])

\* INSERT INTO compras (fecha, producto_id, cantidad, costo_unitario, total, metodo_pago)
InsertCompras(d, fecha, producto_id, cantidad, costo_unitario, total, metodo_pago) ==
  IF ~compras_check(cantidad, costo_unitario, total)
    THEN Raise("IntegrityError", d)
    ELSE LET id == d.sqlite_sequence.compras + 1
         IN Ok([d EXCEPT
                  !.compras = @ \cup {[id |-> id, fecha |-> fecha,
                                       producto_id |-> producto_id,
                                       cantidad |-> cantidad,
                                       costo_unitario |-> costo_unitario,
                                       total |-> total,
                                       metodo_pago |-> metodo_pago]},
                  !.sqlite_sequence.compras = id])

(* --------------------------- registrar_compra -------------------------- *)
ErrorCompra == Resultado(FALSE, "Error al registrar compra", << >>)

\* the bucket the payment method selects (lines 298-303, 318-331)
BucketCruzado(metodo_pago) ==
  IF metodo_pago = "Efectivo" THEN "transferencia" ELSE "efectivo"

Bucket(metodo_pago) ==
  IF metodo_pago = "Efectivo" THEN "efectivo" ELSE "transferencia"

\* lines 299, 302
CapitalInsuficienteNunca(disponible, total_compra) == FALSE

CapitalInsuficiente(disponible, total_compra) == disponible < total_compra

\* lines 294-303: the total, the balance (read on a connection of its own,
\* which sees what is committed), the check
registrar_compra_capital(a, l, view, committed) ==
  LET total_compra == a.cantidad * a.costo_unitario
      capital == obtener_capital_actual(committed)
      disponible == capital[Bucket(a.metodo_pago)]
  IN IF CapitalInsuficiente(disponible, total_compra)
       THEN Fin("return", view,
                Resultado(FALSE, "Capital insuficiente", <<disponible>>))
       ELSE Sigue("compra_insert",
                  [total_compra |-> total_compra, capital |-> capital], view)

\* lines 306-309
registrar_compra_insert(a, l, view, fecha) ==
  LET r == InsertCompras(view, fecha, a.producto_id, a.cantidad,
                         a.costo_unitario, l.total_compra, a.metodo_pago)
  IN IF r.err = "ok"
       THEN Sigue("compra_stock", l, r.db)
       ELSE Fin("rollback", view, ErrorCompra)

\* line 314
NuevoStockCompraSinSumar(stock_actual, cantidad) == cantidad

NuevoStockCompra(stock_actual, cantidad) == stock_actual + cantidad

\* lines 312-315
registrar_compra_stock(a, l, view) ==
  LET fila == SelectStock(view, a.producto_id)
  IN IF fila = NoRow
       THEN Fin("rollback", view, ErrorCompra)
       ELSE LET nuevo_stock == NuevoStockCompra(fila[1], a.cantidad)
                r == UpdateStock(view, nuevo_stock, a.producto_id)
            IN IF r.err = "ok"
                 THEN Sigue("compra_descontar",
                            [total_compra |-> l.total_compra,
                             capital |-> l.capital,
                             nuevo_stock |-> nuevo_stock], r.db)
                 ELSE Fin("rollback", view, ErrorCompra)

\* lines 319, 326
NuevoCapital(disponible, total_compra) == disponible - total_compra

\* lines 318-331: the balance read at line 297 minus the total
registrar_compra_descontar(a, l, view, fecha) ==
  LET b == Bucket(a.metodo_pago)
      actual == obtener_capital_actual(view)
      nuevo == [actual EXCEPT ![b] = NuevoCapital(l.capital[b], l.total_compra)]
      r == UpdateCapital(view, nuevo, fecha)
  IN IF r.err = "ok"
       THEN Sigue("compra_commit", l, r.db)
       ELSE Fin("rollback", view, ErrorCompra)

\* lines 333-334
registrar_compra_commit(a, l, view) ==
  Fin("commit", view,
      Resultado(TRUE, "Compra registrada", <<l.nuevo_stock, l.total_compra>>))

(* ------------------------- running a handler --------------------------- *)
FirstStep(op) ==
  IF op = "registrar_venta" THEN "venta_select" ELSE "compra_capital"

\* the steps that execute an INSERT, an UPDATE or the COMMIT
WriteSteps == {"venta_insert", "venta_update", "venta_commit",
               "compra_insert", "compra_stock", "compra_descontar",
               "compra_commit"}

ErrorDe(a) == IF a.op = "registrar_venta" THEN ErrorVenta ELSE ErrorCompra

Paso(pc_, a, l, view, committed, fecha) ==
  CASE pc_ = "venta_select" -> registrar_venta_select(a, l, view)
    [] pc_ = "venta_insert" -> registrar_venta_insert(a, l, view, fecha)
    [] pc_ = "venta_update" -> registrar_venta_update(a, l, view)
    [] pc_ = "venta_commit" -> registrar_venta_commit(a, l, view)
    [] pc_ = "compra_capital" -> registrar_compra_capital(a, l, view, committed)
    [] pc_ = "compra_insert" -> registrar_compra_insert(a, l, view, fecha)
    [] pc_ = "compra_stock" -> registrar_compra_stock(a, l, view)
    [] pc_ = "compra_descontar" -> registrar_compra_descontar(a, l, view, fecha)
    [] pc_ = "compra_commit" -> registrar_compra_commit(a, l, view)

\* except branch (lines 140-142, 336-338) when the statement at `fallo` raises
\* for a reason of the store (I/O fault, disk full, lock timeout)
RECURSIVE Exec(_, _, _, _, _)
Exec(f, a, committed, fecha, fallo) ==
  IF f.pc \in Terminal THEN f
  ELSE IF f.pc = fallo THEN Fin("rollback", f.view, ErrorDe(a))
  ELSE Exec(Paso(f.pc, a, f.loc, f.view, committed, fecha), a, committed,
            fecha, fallo)

\* conn.rollback() drops the connection's writes; conn.commit() publishes them
AfterKeepingWrites(f, committed) == f.view

After(f, committed) == IF f.pc = "commit" THEN f.view ELSE committed

Run(a, committed, fecha, fallo) ==
  Exec(Sigue(FirstStep(a.op), << >>, committed), a, committed, fecha, fallo)

\* the write steps a call reaches when the store does not fail
RECURSIVE Reached(_, _, _, _)
Reached(f, a, committed, fecha) ==
  IF f.pc \in Terminal THEN {}
  ELSE ({f.pc} \cap WriteSteps)
         \cup Reached(Paso(f.pc, a, f.loc, f.view, committed, fecha), a,
                      committed, fecha)

\* where the store may fail during the call: nowhere, or at one of those steps
Fallos(a, committed, fecha) ==
  {"none"} \cup Reached(Sigue(FirstStep(a.op), << >>, committed), a, committed,
                        fecha)

(* ------------------ one user: operations run one at a time ------------- *)
\* the whole handler on its own connection, from call to return
Atomic(c, d, si) ==
  /\ pc[c] = "idle"
  /\ lock = NoCaller
  /\ db' = d
  /\ tx' = d
  /\ stock_inicial' = si
  /\ UNCHANGED <<lock, hoy, pc, args, loc>>

VentaArgs_(producto_id, cantidad, mermas, metodo) ==
  [op |-> "registrar_venta", producto_id |-> producto_id,
   cantidad |-> cantidad, mermas |-> mermas, metodo |-> metodo]

CompraArgs_(producto_id, cantidad, costo_unitario, metodo_pago) ==
  [op |-> "registrar_compra", producto_id |-> producto_id,
   cantidad |-> cantidad, costo_unitario |-> costo_unitario,
   metodo_pago |-> metodo_pago]

\* rows inserted so far (AUTOINCREMENT never reuses an id)
Filas(d) == d.sqlite_sequence.ventas + d.sqlite_sequence.compras

\* lines 115-142
registrar_venta_run(d, fecha, producto_id, cantidad, mermas, metodo, fallo) ==
  Run(VentaArgs_(producto_id, cantidad, mermas, metodo), d, fecha, fallo)

registrar_venta(c, producto_id, cantidad, mermas, metodo, fallo) ==
  LET f == registrar_venta_run(db, hoy, producto_id, cantidad, mermas, metodo,
                               fallo)
  IN /\ Filas(db) < MaxFilas
     /\ Atomic(c, After(f, db), stock_inicial)

\* lines 289-338
registrar_compra_run(d, fecha, producto_id, cantidad, costo_unitario, metodo_pago, fallo) ==
  Run(CompraArgs_(producto_id, cantidad, costo_unitario, metodo_pago), d, fecha,
      fallo)

registrar_compra(c, producto_id, cantidad, costo_unitario, metodo_pago, fallo) ==
  LET f == registrar_compra_run(db, hoy, producto_id, cantidad, costo_unitario,
                                metodo_pago, fallo)
  IN /\ Filas(db) < MaxFilas
     /\ Atomic(c, After(f, db), stock_inicial)

Nombres(d) == {d.productos[i].nombre : i \in DOMAIN d.productos}

Restrict(f, S) == [x \in S |-> f[x]]

\* INSERT INTO productos (nombre, costo, venta, stock)
InsertProductos(d, nombre, costo, venta, stock) ==
  IF nombre \in Nombres(d) \/ ~productos_check(costo, venta, stock)
    THEN Raise("IntegrityError", d)
    ELSE LET id == d.sqlite_sequence.productos + 1
         IN Ok([d EXCEPT
                  !.productos = [i \in DOMAIN @ \cup {id} |->
                                   IF i = id
                                     THEN [nombre |-> nombre, costo |-> costo,
                                           venta |-> venta, stock |-> stock]
                                     ELSE @[i]],
                  !.sqlite_sequence.productos = id])

\* line 152
VentaMenorQueCostoNunca(costo, venta) == FALSE

VentaMenorQueCosto(costo, venta) == venta < costo

\* lines 144-167: what the call returns and what it leaves in the store
agregar_producto_run(d, nombre, costo, venta, stock) ==
  LET r == InsertProductos(d, strip(nombre), costo, venta, stock)
  IN IF strip(nombre) = << >>
       THEN Fin("return", d, Resultado(FALSE, "Nombre vacio", << >>))
       ELSE IF costo < 0 \/ venta < 0
         THEN Fin("return", d, Resultado(FALSE, "Precios negativos", << >>))
         ELSE IF VentaMenorQueCosto(costo, venta)
           THEN Fin("return", d,
                    Resultado(FALSE, "Venta menor que costo", << >>))
           ELSE IF r.err = "ok"
             THEN Fin("commit", r.db,
                      Resultado(TRUE, "Producto agregado", << >>))
             ELSE Fin("rollback", d,
                      Resultado(FALSE, "Ya existe un producto", << >>))

agregar_producto(c, nombre, costo, venta, stock) ==
  LET f == agregar_producto_run(db, nombre, costo, venta, stock)
  IN /\ db.sqlite_sequence.productos < MaxProductos
     /\ Atomic(c, After(f, db),
               [i \in DOMAIN After(f, db).productos |->
                  IF i \in DOMAIN stock_inicial THEN stock_inicial[i]
                  ELSE stock])

\* SELECT COUNT(*) FROM ventas WHERE producto_id = ?
VentasDe(d, producto_id) == {v \in d.ventas : v.producto_id = producto_id}

\* line 178
TieneVentasNunca(d, producto_id) == FALSE

TieneVentas(d, producto_id) == Cardinality(VentasDe(d, producto_id)) > 0

\* lines 169-185
eliminar_producto_run_cascada(d, producto_id) ==
  IF TieneVentas(d, producto_id)
    THEN Fin("return", d, Resultado(FALSE, "Producto con ventas", << >>))
    ELSE Fin("commit",
             [d EXCEPT !.productos =
                         Restrict(@, DOMAIN d.productos \ {producto_id}),
                       !.compras = {r \in @ : r.producto_id # producto_id}],
             Resultado(TRUE, "Producto eliminado", << >>))

eliminar_producto_run(d, producto_id) ==
  IF TieneVentas(d, producto_id)
    THEN Fin("return", d, Resultado(FALSE, "Producto con ventas", << >>))
    ELSE Fin("commit",
             [d EXCEPT !.productos =
                Restrict(@, DOMAIN d.productos \ {producto_id})],
             Resultado(TRUE, "Producto eliminado", << >>))

eliminar_producto(c, producto_id) ==
  LET f == eliminar_producto_run(db, producto_id)
  IN Atomic(c, After(f, db),
            Restrict(stock_inicial, DOMAIN After(f, db).productos))

\* lines 273-287
actualizar_capital_run(d, efectivo, transferencia, fecha) ==
  LET r == UpdateCapital(d, [efectivo |-> efectivo,
                             transferencia |-> transferencia], fecha)
  IN IF r.err = "ok"
       THEN Fin("commit", r.db, Resultado(TRUE, "Capital actualizado", << >>))
       ELSE Fin("rollback", d,
                Resultado(FALSE, "Error al actualizar capital", << >>))

actualizar_capital(c, efectivo, transferencia) ==
  Atomic(c, After(actualizar_capital_run(db, efectivo, transferencia, hoy), db),
         stock_inicial)

\* lines 222-227: the three DELETEs and the UPDATE of every capital row
reset_sistema_run(d, fecha) ==
  [d EXCEPT
     !.ventas = {},
     !.compras = {},
     !.productos = << >>,
     !.capital_inversion =
        [i \in DOMAIN @ |-> [efectivo |-> 0, transferencia |-> 0,
                             fecha_actualizacion |-> fecha]]]

\* lines 218-227
reset_sistema(c) == Atomic(c, reset_sistema_run(db, hoy), << >>)

\* lines 239-254: the stock column holds integers, which int() returns as
\* they are; a row whose UPDATE raises is set to 0 and counted
Corregido(p) == ~productos_check(p.costo, p.venta, p.stock)

StockLimpio(p) == IF Corregido(p) THEN 0 ELSE p.stock

\* lines 229-260
limpiar_datos_corruptos_run(d) ==
  Fin("commit",
      [d EXCEPT !.productos =
         [i \in DOMAIN d.productos |->
            [d.productos[i] EXCEPT !.stock = StockLimpio(d.productos[i])]]],
      Resultado(TRUE, "Se corrigieron",
                <<Cardinality({i \in DOMAIN d.productos :
                                 Corregido(d.productos[i])})>>))

limpiar_datos_corruptos(c) ==
  Atomic(c, After(limpiar_datos_corruptos_run(db), db), stock_inicial)

\* line 79: SELECT COUNT(*) FROM capital_inversion
ContarCapital(d) == Cardinality(DOMAIN d.capital_inversion)

\* lines 81-82: INSERT INTO capital_inversion (...) VALUES (0, 0, ?)
InsertCapital(d, fecha) ==
  LET id == d.sqlite_sequence.capital_inversion + 1
  IN [d EXCEPT
        !.capital_inversion =
           [i \in DOMAIN @ \cup {id} |->
              IF i = id
                THEN [efectivo |-> 0, transferencia |-> 0,
                      fecha_actualizacion |-> fecha]
                ELSE @[i]],
        !.sqlite_sequence.capital_inversion = id]

\* lines 20-84 on an existing store (the script runs it on every rerun)
init_database(c) ==
  Atomic(c,
         IF ContarCapital(db) = 0 THEN InsertCapital(db, hoy) ELSE db,
         stock_inicial)

(* --------------------------- specifications ---------------------------- *)
\* line 404: init_database() on a store that does not exist yet
Init ==
  /\ db = EmptyDb(0)
  /\ tx = EmptyDb(0)
  /\ lock = NoCaller
  /\ hoy = 0
  /\ pc = [c \in Callers |-> "idle"]
  /\ args = [c \in Callers |-> NoArgs]
  /\ loc = [c \in Callers |-> << >>]
  /\ stock_inicial = << >>

Usuario == "A"

\* one interactive user: each operation runs from call to return
Next ==
  \/ \E n \in NombreArgs, co \in CostoArgs, v \in VentaArgs, s \in StockArgs :
        agregar_producto(Usuario, n, co, v, s)
  \/ \E p \in ProductoIds : eliminar_producto(Usuario, p)
  \/ \E e \in CapitalArgs, t \in CapitalArgs : actualizar_capital(Usuario, e, t)
  \/ reset_sistema(Usuario)
  \/ limpiar_datos_corruptos(Usuario)
  \/ init_database(Usuario)
  \/ \E p \in ProductoIds, q \in CantidadArgs, m \in MermasArgs,
        met \in Metodos :
        \E fallo \in Fallos(VentaArgs_(p, q, m, met), db, hoy) :
           registrar_venta(Usuario, p, q, m, met, fallo)
  \/ \E p \in ProductoIds, q \in CantidadArgs, cu \in CostoUnitarioArgs,
        met \in Metodos :
        \E fallo \in Fallos(CompraArgs_(p, q, cu, met), db, hoy) :
           registrar_compra(Usuario, p, q, cu, met, fallo)

Spec == Init /\ [][Next]_vars

(* ------------- several sessions: handlers interleave step by step ------ *)
\* content a connection reads: its own uncommitted writes, else what is committed
View(c) == IF lock = c THEN tx ELSE db

\* an INSERT/UPDATE/COMMIT needs the store's write lock
CanWrite(c) == lock \in {NoCaller, c}

Quiet == \A c \in Callers : pc[c] = "idle"

EnCurso == Cardinality({c \in Callers : pc[c] # "idle"})

\* a session calls a handler: its connection opens and nothing is read yet
Llamada(c, op) ==
  /\ pc[c] = "idle"
  /\ Filas(db) + EnCurso < MaxFilas
  /\ pc' = [pc EXCEPT ![c] = FirstStep(op)]
  /\ loc' = [loc EXCEPT ![c] = << >>]
  /\ UNCHANGED <<db, tx, lock, hoy, stock_inicial>>

registrar_venta_call(c, producto_id, cantidad, mermas, metodo) ==
  /\ Llamada(c, "registrar_venta")
  /\ args' = [args EXCEPT
               ![c] = VentaArgs_(producto_id, cantidad, mermas, metodo)]

registrar_compra_call(c, producto_id, cantidad, costo_unitario, metodo_pago) ==
  /\ Llamada(c, "registrar_compra")
  /\ args' = [args EXCEPT
               ![c] = CompraArgs_(producto_id, cantidad, costo_unitario,
                                  metodo_pago)]

\* the handler returns and its connection is closed (lines 17-18)
Termina(c) ==
  /\ pc' = [pc EXCEPT ![c] = "idle"]
  /\ args' = [args EXCEPT ![c] = NoArgs]
  /\ loc' = [loc EXCEPT ![c] = << >>]

\* the next statement of the handler c runs
paso(c) ==
  /\ pc[c] # "idle"
  /\ pc[c] \in WriteSteps => CanWrite(c)
  /\ LET f == Paso(pc[c], args[c], loc[c], View(c), db, hoy)
     IN /\ db' = After(f, db)
        /\ IF f.pc \in Terminal
             THEN /\ tx' = (IF lock = c THEN After(f, db) ELSE tx)
                  /\ lock' = (IF lock = c THEN NoCaller ELSE lock)
                  /\ Termina(c)
             ELSE /\ tx' = (IF pc[c] \in WriteSteps THEN f.view ELSE tx)
                  /\ lock' = (IF pc[c] \in WriteSteps THEN c ELSE lock)
                  /\ pc' = [pc EXCEPT ![c] = f.pc]
                  /\ loc' = [loc EXCEPT ![c] = f.loc]
                  /\ args' = args
  /\ UNCHANGED <<hoy, stock_inicial>>

\* another connection holds the write lock until the busy timeout expires:
\* sqlite3.OperationalError("database is locked"), except branch, rollback
database_locked(c) ==
  /\ pc[c] \in WriteSteps
  /\ ~CanWrite(c)
  /\ Termina(c)
  /\ UNCHANGED <<db, tx, lock, hoy, stock_inicial>>

\* a store with one product and both buckets filled, before the sessions start
CapitalConc == [efectivo |-> 100, transferencia |-> 10]
StockConc == {3, 5}

Preparado(s) ==
  LET d1 == After(agregar_producto_run(EmptyDb(0), <<"a">>, 2, 2, s),
                  EmptyDb(0))
  IN After(actualizar_capital_run(d1, CapitalConc.efectivo,
                                  CapitalConc.transferencia, 0), d1)

InitConc ==
  /\ \E s \in StockConc :
        /\ db = Preparado(s)
        /\ tx = Preparado(s)
        /\ stock_inicial = (1 :> s)
  /\ lock = NoCaller
  /\ hoy = 0
  /\ pc = [c \in Callers |-> "idle"]
  /\ args = [c \in Callers |-> NoArgs]
  /\ loc = [c \in Callers |-> << >>]

NextConc ==
  \E c \in Callers :
     \/ \E p \in ProductoIds, q \in CantidadArgs, m \in MermasArgs,
           met \in Metodos : registrar_venta_call(c, p, q, m, met)
     \/ \E p \in ProductoIds, q \in CantidadArgs, cu \in CostoUnitarioArgs,
           met \in Metodos : registrar_compra_call(c, p, q, cu, met)
     \/ paso(c)
     \/ database_locked(c)

SpecConc == InitConc /\ [][NextConc]_vars

(* ------------- first start: two sessions open the application --------- *)
\* the store as lines 26-76 leave it: the tables exist and hold no row
SinFilas ==
  [EmptyDb(0) EXCEPT !.capital_inversion = << >>,
                     !.sqlite_sequence.capital_inversion = 0]

\* line 404: the script of the session runs, for the first time or again
init_database_call(c) ==
  /\ pc[c] \in {"arranque", "idle"}
  /\ pc' = [pc EXCEPT ![c] = "init_count"]
  /\ UNCHANGED <<db, tx, lock, hoy, args, loc, stock_inicial>>

\* lines 79-80: the SELECT runs in autocommit, no transaction is open
init_database_count(c) ==
  /\ pc[c] = "init_count"
  /\ loc' = [loc EXCEPT ![c] = [count |-> ContarCapital(View(c))]]
  /\ pc' = [pc EXCEPT ![c] = IF ContarCapital(View(c)) = 0
                               THEN "init_insert" ELSE "init_commit"]
  /\ UNCHANGED <<db, tx, lock, hoy, args, stock_inicial>>

\* lines 81-82: the INSERT opens the transaction and takes the write lock
init_database_insert(c) ==
  /\ pc[c] = "init_insert"
  /\ CanWrite(c)
  /\ tx' = InsertCapital(View(c), hoy)
  /\ lock' = c
  /\ pc' = [pc EXCEPT ![c] = "init_commit"]
  /\ UNCHANGED <<db, hoy, args, loc, stock_inicial>>

\* line 84 and the close of the connection (lines 17-18)
init_database_commit(c) ==
  /\ pc[c] = "init_commit"
  /\ db' = View(c)
  /\ tx' = (IF lock = c THEN View(c) ELSE tx)
  /\ lock' = (IF lock = c THEN NoCaller ELSE lock)
  /\ Termina(c)
  /\ UNCHANGED <<hoy, stock_inicial>>

\* the INSERT waits for the write lock until the busy timeout expires:
\* sqlite3.OperationalError is not caught and this run of the script stops
init_database_locked(c) ==
  /\ pc[c] = "init_insert"
  /\ ~CanWrite(c)
  /\ pc' = [pc EXCEPT ![c] = "arranque"]
  /\ loc' = [loc EXCEPT ![c] = << >>]
  /\ UNCHANGED <<db, tx, lock, hoy, args, stock_inicial>>

InitArranque ==
  /\ db = SinFilas
  /\ tx = SinFilas
  /\ stock_inicial = << >>
  /\ lock = NoCaller
  /\ hoy = 0
  /\ pc = [c \in Callers |-> "arranque"]
  /\ args = [c \in Callers |-> NoArgs]
  /\ loc = [c \in Callers |-> << >>]

\* a session uses the capital handlers once its script has run
NextArranque ==
  \E c \in Callers :
     \/ init_database_call(c)
     \/ init_database_count(c)
     \/ init_database_insert(c)
     \/ init_database_commit(c)
     \/ init_database_locked(c)
     \/ \E e \in CapitalArgs, t \in CapitalArgs : actualizar_capital(c, e, t)
     \/ reset_sistema(c)

SpecArranque == InitArranque /\ [][NextArranque]_vars

(* ----------------------- the report of a period ------------------------ *)
\* days are counted from 2024-01-01 (day 0); date.isoformat() gives the text
\* YYYY-MM-DD, kept here as <<year, month, day>>
isoformat(n) ==
  IF n < 0 THEN <<2023, 12, n + 32>>
  ELSE IF n < 31 THEN <<2024, 1, n + 1>>
  ELSE <<2024, 2, n - 30>>

\* TEXT >= TEXT in SQLite: the texts have fixed width, so field by field
TextoMayor(a, b) ==
  \/ a[1] > b[1]
  \/ a[1] = b[1] /\ a[2] > b[2]
  \/ a[1] = b[1] /\ a[2] = b[2] /\ a[3] > b[3]

TextoMayorIgual(a, b) == a = b \/ TextoMayor(a, b)

\* line 754
DiasPeriodo == 30

\* lines 753-757
fecha_inicio(ver_30_dias, today) ==
  IF ver_30_dias THEN isoformat(today - DiasPeriodo) ELSE isoformat(today)

\* lines 187-196: one row per sale whose product exists and whose date is not
\* before fecha_inicio_; fila is the row's place in the DataFrame
obtener_ventas_periodo(d, fecha_inicio_) ==
  {[fila |-> v.id, nombre |-> d.productos[v.producto_id].nombre,
    costo |-> d.productos[v.producto_id].costo,
    venta |-> d.productos[v.producto_id].venta,
    vendidos |-> v.vendidos, mermas |-> v.mermas, metodo |-> v.metodo] :
     v \in {w \in d.ventas :
              /\ w.producto_id \in DOMAIN d.productos
              /\ TextoMayorIgual(isoformat(w.fecha), fecha_inicio_)}}

RECURSIVE SumaInversion(_)
SumaInversion(df) ==
  IF df = {} THEN 0
  ELSE LET r == CHOOSE x \in df : TRUE
       IN r.vendidos * r.costo + SumaInversion(df \ {r})

RECURSIVE SumaVenta(_)
SumaVenta(df) ==
  IF df = {} THEN 0
  ELSE LET r == CHOOSE x \in df : TRUE
       IN r.vendidos * r.venta + SumaVenta(df \ {r})

\* lines 760-766; with no rows the tab shows no figures
tab_bal(d, ver_30_dias, today) ==
  LET df_ventas == obtener_ventas_periodo(d, fecha_inicio(ver_30_dias, today))
  IN IF df_ventas = {}
       THEN [vacio |-> TRUE]
       ELSE [vacio |-> FALSE,
             venta_total |-> SumaVenta(df_ventas),
             inversion_total |-> SumaInversion(df_ventas),
             ganancia_total |-> SumaVenta(df_ventas) - SumaInversion(df_ventas)]

\* date.today() moves on between two uses of the program
Saltos == {15, 16}

pasa_dia(n) ==
  /\ Quiet
  /\ hoy + n <= MaxDia
  /\ hoy' = hoy + n
  /\ UNCHANGED <<db, tx, lock, pc, args, loc, stock_inicial>>

\* a store with one product in stock, sold from over several days
StockDias == {5, 8}

InitDias ==
  /\ \E s \in StockDias :
        /\ db = Preparado(s)
        /\ tx = Preparado(s)
        /\ stock_inicial = (1 :> s)
  /\ lock = NoCaller
  /\ hoy = 0
  /\ pc = [c \in Callers |-> "idle"]
  /\ args = [c \in Callers |-> NoArgs]
  /\ loc = [c \in Callers |-> << >>]

NextDias ==
  \/ \E n \in Saltos : pasa_dia(n)
  \/ \E p \in ProductoIds, q \in CantidadArgs, m \in MermasArgs,
        met \in Metodos :
        \E fallo \in Fallos(VentaArgs_(p, q, m, met), db, hoy) :
           registrar_venta(Usuario, p, q, m, met, fallo)

SpecDias == InitDias /\ [][NextDias]_vars

(* ------------------------- purchase summaries -------------------------- *)
\* lines 355-370: one row per purchase whose product exists
obtener_historial_compras(d) ==
  {[fila |-> c.id, Fecha |-> c.fecha,
    Producto |-> d.productos[c.producto_id].nombre, Cantidad |-> c.cantidad,
    CostoUnit |-> c.costo_unitario, TotalInvertido |-> c.total,
    MetodoPago |-> c.metodo_pago] :
     c \in {x \in d.compras : x.producto_id \in DOMAIN d.productos}}

RECURSIVE SumaTotalInvertido(_)
SumaTotalInvertido(df) ==
  IF df = {} THEN 0
  ELSE LET r == CHOOSE x \in df : TRUE
       IN r.TotalInvertido + SumaTotalInvertido(df \ {r})

\* lines 382-383: SELECT SUM(total) FROM compras, or 0
RECURSIVE total_comprado(_)
total_comprado(compras) ==
  IF compras = {} THEN 0
  ELSE LET c == CHOOSE x \in compras : TRUE
       IN c.total + total_comprado(compras \ {c})

\* lines 378-379: SELECT SUM(stock * costo) FROM productos WHERE stock > 0, or 0
RECURSIVE inversion_actual(_, _)
inversion_actual(productos, ids) ==
  IF ids = {} THEN 0
  ELSE LET i == CHOOSE x \in ids : TRUE
       IN (IF productos[i].stock > 0
             THEN productos[i].stock * productos[i].costo ELSE 0)
          + inversion_actual(productos, ids \ {i})

\* lines 372-394
calcular_resumen_inversion(d) ==
  [inversion_actual |-> inversion_actual(d.productos, DOMAIN d.productos),
   total_comprado |-> total_comprado(d.compras),
   capital_disponible |-> obtener_capital_actual(d).efectivo
                            + obtener_capital_actual(d).transferencia,
   capital_efectivo |-> obtener_capital_actual(d).efectivo,
   capital_transferencia |-> obtener_capital_actual(d).transferencia]

(* ------------------------------ properties ----------------------------- *)
ComprasDe(d, producto_id) == {r \in d.compras : r.producto_id = producto_id}

RECURSIVE SumaCantidad(_)
SumaCantidad(S) ==
  IF S = {} THEN 0
  ELSE LET r == CHOOSE x \in S : TRUE IN r.cantidad + SumaCantidad(S \ {r})

RECURSIVE SumaVendidos(_)
SumaVendidos(S) ==
  IF S = {} THEN 0
  ELSE LET r == CHOOSE x \in S : TRUE IN r.vendidos + SumaVendidos(S \ {r})

RECURSIVE SumaTotal(_)
SumaTotal(S) ==
  IF S = {} THEN 0
  ELSE LET r == CHOOSE x \in S : TRUE IN r.total + SumaTotal(S \ {r})

Comprado(d, p) == SumaCantidad(ComprasDe(d, p))
Vendido(d, p) == SumaVendidos(VentasDe(d, p))
Saldo(d) == obtener_capital_actual(d)

\* C1: after any sequence of operations, with any arguments, every product in
\* the catalog has stock >= 0.
C1_StockNoNegativo ==
  \A p \in DOMAIN db.productos : db.productos[p].stock >= 0

\* a product that had stock and was sold down to exactly zero
C1_Witness ==
  \E p \in DOMAIN db.productos :
     /\ db.productos[p].stock = 0
     /\ stock_inicial[p] > 0
     /\ VentasDe(db, p) # {}

\* C2 as stated: the stock of every product is the quantity purchased minus
\* the quantity sold.
C2_StockEsComprasMenosVentas ==
  \A p \in DOMAIN db.productos :
     db.productos[p].stock = Comprado(db, p) - Vendido(db, p)

\* C2 amended: the stock of every product is the initial stock it was added
\* with, plus the quantity purchased, minus the quantity sold.
C2_StockDesdeInicial ==
  \A p \in DOMAIN db.productos :
     db.productos[p].stock = stock_inicial[p] + Comprado(db, p) - Vendido(db, p)

\* a product added with stock, then purchased and sold
C2_Witness ==
  \E p \in DOMAIN db.productos :
     /\ stock_inicial[p] > 0
     /\ ComprasDe(db, p) # {}
     /\ VentasDe(db, p) # {}

\* C3: a sale of more than the current stock is rejected with the
\* insufficient-stock error that reports the available stock, and the store
\* (stock, capital, sales, purchases) is left exactly as it was.
C3_VentaSinStockRechazada ==
  \A p \in DOMAIN db.productos, q \in CantidadArgs, m \in MermasArgs,
     met \in Metodos :
     q > db.productos[p].stock =>
       \A fallo \in Fallos(VentaArgs_(p, q, m, met), db, hoy) :
          LET f == registrar_venta_run(db, hoy, p, q, m, met, fallo)
          IN /\ f.res = Resultado(FALSE, "Stock insuficiente",
                                  <<db.productos[p].stock>>)
             /\ After(f, db) = db

\* a product sold down below a quantity that can be asked for
C3_Witness ==
  \E p \in DOMAIN db.productos, q \in CantidadArgs :
     /\ VentasDe(db, p) # {}
     /\ db.productos[p].stock > 0
     /\ q > db.productos[p].stock

\* C4: a purchase whose total exceeds the balance of the bucket of its payment
\* method is rejected with the insufficient-capital error and changes nothing;
\* so an admitted purchase has total <= the balance read before it.
C4_CompraSinCapitalRechazada ==
  \A p \in ProductoIds, q \in CantidadArgs, cu \in CostoUnitarioArgs,
     met \in Metodos :
     LET disponible == IF met = "Efectivo" THEN Saldo(db).efectivo
                       ELSE Saldo(db).transferencia
     IN \A fallo \in Fallos(CompraArgs_(p, q, cu, met), db, hoy) :
           LET f == registrar_compra_run(db, hoy, p, q, cu, met, fallo)
           IN /\ q * cu > disponible =>
                   /\ f.res = Resultado(FALSE, "Capital insuficiente",
                                        <<disponible>>)
                   /\ After(f, db) = db
              /\ f.pc = "commit" => q * cu <= disponible

\* a purchase was admitted and repeating it would exceed what is left
C4_Witness ==
  \E r \in db.compras :
     /\ r.producto_id \in DOMAIN db.productos
     /\ r.total > Saldo(db)[Bucket(r.metodo_pago)]

\* C5: both buckets are >= 0 in every reachable state; set_balance with a
\* negative argument fails and changes nothing.
C5_CapitalNoNegativo ==
  /\ \A i \in DOMAIN db.capital_inversion :
        /\ db.capital_inversion[i].efectivo >= 0
        /\ db.capital_inversion[i].transferencia >= 0
  /\ \A e \in CapitalArgs, t \in CapitalArgs :
        (e < 0 \/ t < 0) =>
           LET f == actualizar_capital_run(db, e, t, hoy)
           IN ~f.res.exito /\ After(f, db) = db

\* a bucket spent down to exactly zero by a purchase
C5_Witness ==
  \E r \in db.compras :
     /\ r.total > 0
     /\ Saldo(db)[Bucket(r.metodo_pago)] = 0

\* C6: a successful sale inserts exactly one row holding its arguments and
\* lowers the product's stock by quantity_sold only; the lost quantity is
\* stored and nothing else; other products, purchases and capital are untouched.
C6_VentaEfecto ==
  \A p \in ProductoIds, q \in CantidadArgs, m \in MermasArgs, met \in Metodos :
     LET f == registrar_venta_run(db, hoy, p, q, m, met, "none")
         d == After(f, db)
         fila == [id |-> db.sqlite_sequence.ventas + 1, fecha |-> hoy,
                  producto_id |-> p, vendidos |-> q, mermas |-> m,
                  metodo |-> met]
     IN f.res.exito =>
          /\ fila \notin db.ventas
          /\ d.ventas = db.ventas \cup {fila}
          /\ DOMAIN d.productos = DOMAIN db.productos
          /\ p \in DOMAIN db.productos
          /\ d.productos[p].stock = db.productos[p].stock - q
          /\ f.res = Resultado(TRUE, "Venta registrada",
                               <<db.productos[p].stock - q>>)
          /\ \A o \in DOMAIN db.productos \ {p} : d.productos[o] = db.productos[o]
          /\ d.compras = db.compras
          /\ d.capital_inversion = db.capital_inversion

\* a sale with a lost unit was recorded and the stock fell by the sold quantity
C6_Witness ==
  \E v \in db.ventas :
     /\ v.mermas > 0
     /\ v.producto_id \in DOMAIN db.productos
     /\ db.productos[v.producto_id].stock
          = stock_inicial[v.producto_id] + Comprado(db, v.producto_id)
              - v.vendidos
     /\ \E o \in DOMAIN db.productos : o # v.producto_id

\* the round trip of C7: stock 0 and cash 100, then 5 and 3 units at cost 2
EjemploInicio ==
  LET d1 == After(agregar_producto_run(EmptyDb(0), <<"a">>, 2, 2, 0),
                  EmptyDb(0))
  IN After(actualizar_capital_run(d1, 100, 0, 0), d1)

EjemploFin ==
  LET d1 == After(registrar_compra_run(EjemploInicio, 0, 1, 5, 2, "Efectivo",
                                       "none"), EjemploInicio)
  IN After(registrar_compra_run(d1, 0, 1, 3, 2, "Efectivo", "none"), d1)

\* C7: a successful purchase inserts exactly one row with total = quantity x
\* unit cost, raises the product's stock by quantity, lowers the bucket of the
\* payment method by the total and leaves the other bucket; 5 and 3 units at
\* cost 2 from stock 0 and cash 100 give stock 8 and cash 84.
C7_CompraEfecto ==
  /\ \A p \in ProductoIds, q \in CantidadArgs, cu \in CostoUnitarioArgs,
        met \in Metodos :
        LET f == registrar_compra_run(db, hoy, p, q, cu, met, "none")
            d == After(f, db)
            fila == [id |-> db.sqlite_sequence.compras + 1, fecha |-> hoy,
                     producto_id |-> p, cantidad |-> q, costo_unitario |-> cu,
                     total |-> q * cu, metodo_pago |-> met]
        IN f.res.exito =>
             /\ fila \notin db.compras
             /\ d.compras = db.compras \cup {fila}
             /\ p \in DOMAIN db.productos
             /\ d.productos = [db.productos EXCEPT ![p].stock = @ + q]
             /\ Saldo(d).efectivo =
                  Saldo(db).efectivo - (IF met = "Efectivo" THEN q * cu ELSE 0)
             /\ Saldo(d).transferencia =
                  Saldo(db).transferencia
                    - (IF met = "Efectivo" THEN 0 ELSE q * cu)
             /\ d.ventas = db.ventas
  /\ EjemploFin.productos[1].stock = 8
  /\ Saldo(EjemploFin).efectivo = 84

\* the round trip has happened: two cash purchases of 5 and 3 at cost 2
C7_Witness ==
  \E p \in DOMAIN db.productos :
     /\ stock_inicial[p] = 0
     /\ db.productos[p].stock = 8
     /\ Saldo(db).efectivo = 84
     /\ {[cantidad |-> r.cantidad, total |-> r.total,
          metodo_pago |-> r.metodo_pago] : r \in ComprasDe(db, p)}
          = {[cantidad |-> 5, total |-> 10, metodo_pago |-> "Efectivo"],
             [cantidad |-> 3, total |-> 6, metodo_pago |-> "Efectivo"]}

\* C8: removing a product that a sale references fails and keeps the product;
\* removing one that no sale references succeeds and removes it; so every sale
\* row references a product of the catalog.
C8_VentasConProducto ==
  /\ \A p \in ProductoIds :
        LET f == eliminar_producto_run(db, p)
            d == After(f, db)
        IN IF \E v \in db.ventas : v.producto_id = p
             THEN ~f.res.exito /\ d = db
             ELSE f.res.exito /\ p \notin DOMAIN d.productos
  /\ \A v \in db.ventas : v.producto_id \in DOMAIN db.productos

\* a product without sales was removed (its purchase row is left behind) and
\* another product has a sale
C8_Witness ==
  /\ \E r \in db.compras : r.producto_id \notin DOMAIN db.productos
  /\ \E v \in db.ventas : v.producto_id \in DOMAIN db.productos

\* C9: when the store fails at a write step of a sale or a purchase, the call
\* returns an error and the store is what it was before the call; stock never
\* differs from what the rows account for.
C9_FalloRevierte ==
  /\ \A p \in ProductoIds, q \in CantidadArgs, m \in MermasArgs,
        met \in Metodos :
        \A fallo \in Fallos(VentaArgs_(p, q, m, met), db, hoy) \ {"none"} :
           LET f == registrar_venta_run(db, hoy, p, q, m, met, fallo)
           IN ~f.res.exito /\ After(f, db) = db
  /\ \A p \in ProductoIds, q \in CantidadArgs, cu \in CostoUnitarioArgs,
        met \in Metodos :
        \A fallo \in Fallos(CompraArgs_(p, q, cu, met), db, hoy) \ {"none"} :
           LET f == registrar_compra_run(db, hoy, p, q, cu, met, fallo)
           IN ~f.res.exito /\ After(f, db) = db
  /\ \A p \in DOMAIN db.productos :
        db.productos[p].stock - stock_inicial[p]
          = Comprado(db, p) - Vendido(db, p)

\* a sale and a purchase can both run to their commit (every write step is a
\* place where the store may fail) in a store that already holds rows
C9_Witness ==
  /\ db.ventas # {} \/ db.compras # {}
  /\ \E p \in ProductoIds, q \in CantidadArgs, m \in MermasArgs,
        met \in Metodos :
        "venta_commit" \in Fallos(VentaArgs_(p, q, m, met), db, hoy)
  /\ \E p \in ProductoIds, q \in CantidadArgs, cu \in CostoUnitarioArgs,
        met \in Metodos :
        "compra_commit" \in Fallos(CompraArgs_(p, q, cu, met), db, hoy)

\* C10: with two sessions, every interleaving gives the result of a serial
\* order: a sale whose row is written asks for no more than the current stock, and
\* with no call running the stock is the initial stock minus the admitted sales
\* plus the admitted purchases and each bucket is the initial balance minus
\* the admitted purchase totals paid from it.
C10_Serializable ==
  /\ \A c \in Callers :
        (pc[c] = "venta_update"
           /\ args[c].producto_id \in DOMAIN View(c).productos)
          => args[c].cantidad
               <= View(c).productos[args[c].producto_id].stock
  /\ Quiet =>
       /\ \A p \in DOMAIN db.productos :
             db.productos[p].stock
               = stock_inicial[p] - Vendido(db, p) + Comprado(db, p)
       /\ Saldo(db).efectivo
            = CapitalConc.efectivo
                - SumaTotal({r \in db.compras : r.metodo_pago = "Efectivo"})
       /\ Saldo(db).transferencia
            = CapitalConc.transferencia
                - SumaTotal({r \in db.compras : r.metodo_pago # "Efectivo"})

\* C11: in every step, a bucket's balance goes up only when the step is an
\* actualizar_capital call; a step that adds a purchase row never raises a
\* bucket: it can only lower the bucket of its payment method and leaves the
\* other bucket as it was.
C11_CapitalSoloSubeEnActualizar ==
  [][LET antes == Saldo(db)
         despues == Saldo(db')
     IN /\ (despues.efectivo > antes.efectivo
              \/ despues.transferencia > antes.transferencia)
             => \E e \in CapitalArgs, t \in CapitalArgs :
                   db' = After(actualizar_capital_run(db, e, t, hoy), db)
        /\ \A r \in db'.compras \ db.compras :
              IF r.metodo_pago = "Efectivo"
                THEN /\ despues.efectivo <= antes.efectivo
                     /\ despues.transferencia = antes.transferencia
                ELSE /\ despues.transferencia <= antes.transferencia
                     /\ despues.efectivo = antes.efectivo]_vars


\* C12 as stated: once a sale or purchase row exists, no step of any operation
\* updates or deletes it.
C12_FilasInmutables ==
  [][db.ventas \subseteq db'.ventas /\ db.compras \subseteq db'.compras]_vars

\* C12 amended: once a sale or purchase row exists, every step keeps it with
\* the same fields and identity, except a reset_sistema step, which deletes
\* every sale and purchase row; a new row never takes the id of an older one.
C12_FilasInmutablesSalvoReset ==
  [][/\ \/ db.ventas \subseteq db'.ventas /\ db.compras \subseteq db'.compras
        \/ db' = reset_sistema_run(db, hoy)
     /\ \A v \in db'.ventas \ db.ventas : v.id > db.sqlite_sequence.ventas
     /\ \A r \in db'.compras \ db.compras : r.id > db.sqlite_sequence.compras]_vars

\* a row was deleted by a reset, and the row created afterwards is kept
C12_Witness ==
  /\ Filas(db) = 2
  /\ Cardinality(db.ventas) + Cardinality(db.compras) = 1
  /\ \A v \in db.ventas : v.producto_id \in DOMAIN db.productos
  /\ \A r \in db.compras : r.producto_id \in DOMAIN db.productos

\* a name of blanks only
EnBlanco(nombre) == \A i \in 1..Len(nombre) : nombre[i] = " "

\* C13: agregar_producto refuses, inserting nothing, every call whose name is
\* empty after trimming, whose cost or sale price is negative, or whose sale
\* price is below the cost; so every product of the catalog has a non-empty
\* name and sale price >= cost >= 0.
C13_ProductoValido ==
  /\ \A n \in NombreArgs, co \in CostoArgs, v \in VentaArgs, s \in StockArgs :
        (EnBlanco(n) \/ co < 0 \/ v < 0 \/ v < co) =>
           LET f == agregar_producto_run(db, n, co, v, s)
           IN ~f.res.exito /\ After(f, db) = db
  /\ \A p \in DOMAIN db.productos :
        /\ ~EnBlanco(db.productos[p].nombre)
        /\ db.productos[p].venta >= db.productos[p].costo
        /\ db.productos[p].costo >= 0

\* the catalog is full of accepted products while invalid calls are on offer
C13_Witness ==
  /\ Cardinality(DOMAIN db.productos) = MaxProductos
  /\ \A p \in DOMAIN db.productos :
        db.productos[p].venta = db.productos[p].costo

\* C14: registrar_venta for a product id that is not in the catalog returns an
\* error and changes nothing: no sale row, no stock, no capital.
C14_VentaProductoInexistente ==
  \A p \in ProductoIds \ DOMAIN db.productos, q \in CantidadArgs,
     m \in MermasArgs, met \in Metodos :
     \A fallo \in Fallos(VentaArgs_(p, q, m, met), db, hoy) :
        LET f == registrar_venta_run(db, hoy, p, q, m, met, fallo)
            d == After(f, db)
        IN /\ ~f.res.exito
           /\ d.ventas = db.ventas
           /\ d.productos = db.productos
           /\ d.capital_inversion = db.capital_inversion
           /\ d = db

\* an id that was issued is no longer in the catalog, next to a product with
\* stock to sell
C14_Witness ==
  /\ \E p \in ProductoIds :
        p \notin DOMAIN db.productos /\ p <= db.sqlite_sequence.productos
  /\ \E o \in DOMAIN db.productos : db.productos[o].stock > 0

\* C15: actualizar_capital with both arguments >= 0 overwrites the balance:
\* whatever it was, obtener_capital_actual right after returns exactly the two
\* arguments; and what obtener_capital_actual returns changes only in a step
\* of actualizar_capital, registrar_compra or reset_sistema.
C15_ActualizarSobrescribe ==
  /\ [](\A e \in CapitalArgs, t \in CapitalArgs :
          (e >= 0 /\ t >= 0) =>
             LET f == actualizar_capital_run(db, e, t, hoy)
             IN /\ f.res.exito
                /\ obtener_capital_actual(After(f, db))
                     = [efectivo |-> e, transferencia |-> t])
  /\ [][obtener_capital_actual(db') # obtener_capital_actual(db) =>
          \/ \E e \in CapitalArgs, t \in CapitalArgs :
                db' = After(actualizar_capital_run(db, e, t, hoy), db)
          \/ db'.compras # db.compras
          \/ db' = reset_sistema_run(db, hoy)]_vars

\* the cash was set again after a cash purchase had lowered it
C15_Witness ==
  \E r \in db.compras :
     /\ r.metodo_pago = "Efectivo"
     /\ r.total > 0
     /\ Saldo(db) = [efectivo |-> 100, transferencia |-> 10]

\* C16: the report of today takes exactly the sales dated today, the report
\* of the last 30 days exactly the sales dated today - 30 or later; so when
\* every sale is dated today both show the same total sold, total invested and
\* gross profit.
C16_ReporteHoyY30Dias ==
  /\ {r.fila : r \in obtener_ventas_periodo(db, fecha_inicio(FALSE, hoy))}
       = {v.id : v \in {w \in db.ventas : w.fecha = hoy}}
  /\ {r.fila : r \in obtener_ventas_periodo(db, fecha_inicio(TRUE, hoy))}
       = {v.id : v \in {w \in db.ventas : w.fecha >= hoy - 30}}
  /\ (\A v \in db.ventas : v.fecha = hoy) =>
        tab_bal(db, FALSE, hoy) = tab_bal(db, TRUE, hoy)

\* two sales, both made today, some days after the store was set up
C16_Witness ==
  /\ hoy > 0
  /\ Cardinality(db.ventas) = 2
  /\ \A v \in db.ventas : v.fecha = hoy
  /\ ~tab_bal(db, TRUE, hoy).vacio

\* C17: every purchase row references a product of the catalog, so the total
\* of purchases in the investment summary equals the sum of the totals the
\* purchase history lists.
C17_ComprasConProducto ==
  /\ \A r \in db.compras : r.producto_id \in DOMAIN db.productos
  /\ calcular_resumen_inversion(db).total_comprado
       = SumaTotalInvertido(obtener_historial_compras(db))

\* no two products of the catalog share a name
NombresUnicos ==
  \A p, q \in DOMAIN db.productos :
     db.productos[p].nombre = db.productos[q].nombre => p = q

\* C18: a call of agregar_producto that passes the name, cost and price
\* checks is answered with the duplicate-name message exactly when the trimmed
\* name is already in the catalog, and no two products share a name.
C18_YaExisteSoloSiDuplicado ==
  /\ \A n \in NombreArgs, co \in CostoArgs, v \in VentaArgs, s \in StockArgs :
        (~EnBlanco(n) /\ co >= 0 /\ v >= co) =>
           (agregar_producto_run(db, n, co, v, s).res.mensaje
              = "Ya existe un producto"
            <=> strip(n) \in Nombres(db))
  /\ NombresUnicos

\* C19: the capital table never holds more than one row, and holds exactly
\* one as soon as a session has run init_database, also after reset_sistema
\* and after init_database runs again on the existing store.
C19_UnaFilaDeCapital ==
  /\ ContarCapital(db) <= 1
  /\ (\E c \in Callers : pc[c] = "idle") => ContarCapital(db) = 1

=============================================================================
